---- MODULE Spec2Model ----
(***************************************************************************)
(* The Monkey lexer of src/lexer/lib.rs: a cursor (position,               *)
(* read_position, ch) over an immutable input, advanced by read_char, and  *)
(* next_token, which returns one token per call.                           *)
(*                                                                         *)
(* A character is its Unicode scalar value.  The input is the sequence of  *)
(* its characters; input.len() is its length in UTF-8 bytes, and slicing   *)
(* input[a..b] is by byte offset, as in Rust.  A panic (the explicit       *)
(* panic!, a slice off a character boundary, unwrap of a failed parse) is  *)
(* the terminal status "panicked".                                         *)
(***************************************************************************)
EXTENDS Integers, Sequences, FiniteSets, TLC

VARIABLES input, position, read_position, ch, status, tokens

vars == <<input, position, read_position, ch, status, tokens>>

(***************************************************************************)
(* Bounds of the model.                                                    *)
(***************************************************************************)
\* Every string over Alphabet of at most MaxLen characters is an input.
MaxLen == 3
\* A lexer is called at most MaxCalls times.
MaxCalls == 11

(***************************************************************************)
(* Characters.                                                             *)
(***************************************************************************)
\* The scalar values of the character literals the source names, and of the
\* letters and digits the inputs below are written with.
Code ==
    [c \in {"NUL", "TAB", "LF", "FF", "CR"} |->
        CASE c = "NUL" -> 0 [] c = "TAB" -> 9 [] c = "LF" -> 10
          [] c = "FF" -> 12 [] c = "CR" -> 13]
    @@ (" " :> 32) @@ ("!" :> 33) @@ ("\"" :> 34) @@ ("(" :> 40) @@ (")" :> 41)
    @@ ("*" :> 42) @@ ("+" :> 43) @@ ("," :> 44) @@ ("-" :> 45) @@ ("/" :> 47)
    @@ ("0" :> 48) @@ ("1" :> 49) @@ ("2" :> 50) @@ ("3" :> 51) @@ ("4" :> 52)
    @@ ("5" :> 53) @@ ("6" :> 54) @@ ("7" :> 55) @@ ("8" :> 56) @@ ("9" :> 57)
    @@ (":" :> 58) @@ (";" :> 59) @@ ("<" :> 60) @@ ("=" :> 61) @@ (">" :> 62)
    @@ ("@" :> 64) @@ ("A" :> 65) @@ ("Z" :> 90) @@ ("[" :> 91) @@ ("]" :> 93)
    @@ ("_" :> 95)
    @@ ("a" :> 97) @@ ("b" :> 98) @@ ("c" :> 99) @@ ("d" :> 100) @@ ("e" :> 101)
    @@ ("f" :> 102) @@ ("g" :> 103) @@ ("h" :> 104) @@ ("i" :> 105)
    @@ ("j" :> 106) @@ ("k" :> 107) @@ ("l" :> 108) @@ ("m" :> 109)
    @@ ("n" :> 110) @@ ("o" :> 111) @@ ("p" :> 112) @@ ("q" :> 113)
    @@ ("r" :> 114) @@ ("s" :> 115) @@ ("t" :> 116) @@ ("u" :> 117)
    @@ ("v" :> 118) @@ ("w" :> 119) @@ ("x" :> 120) @@ ("y" :> 121)
    @@ ("z" :> 122) @@ ("{" :> 123) @@ ("}" :> 125)
    @@ ("e'" :> 233)

\* A text written character by character, as the sequence of its characters.
Str(names) == [i \in 1..Len(names) |-> Code[names[i]]]

\* char::len_utf8: the number of bytes of a character in a &str.
len_utf8(c) ==
    IF c < 128 THEN 1 ELSE IF c < 2048 THEN 2 ELSE IF c < 65536 THEN 3 ELSE 4

\* The byte offset at which the character of index i (from 0) starts;
\* ByteOffset(s, Len(s)) is s.len().
RECURSIVE ByteOffset(_, _)
ByteOffset(s, i) ==
    IF i = 0 THEN 0 ELSE ByteOffset(s, i - 1) + len_utf8(s[i])

\* str::len: the length in bytes.
StrLen(s) == ByteOffset(s, Len(s))

\* str::is_char_boundary.
is_char_boundary(s, b) == \E i \in 0..Len(s) : ByteOffset(s, i) = b

\* The character index of a byte offset that is a character boundary.
CharIndex(s, b) == CHOOSE i \in 0..Len(s) : ByteOffset(s, i) = b

\* input[a..b]: a record [panicked, text]; Rust panics unless a <= b <= len
\* and both are character boundaries.
Slice(s, a, b) ==
    IF a <= b /\ b <= StrLen(s) /\ is_char_boundary(s, a) /\ is_char_boundary(s, b)
    THEN [panicked |-> FALSE,
          text |-> SubSeq(s, CharIndex(s, a) + 1, CharIndex(s, b))]
    ELSE [panicked |-> TRUE, text |-> <<>>]

\* input.chars().nth(n): the character of index n, or None.
NoChar == -1
chars_nth(s, n) == IF n < Len(s) THEN s[n + 1] ELSE NoChar

\* char::is_ascii_whitespace: space, tab, line feed, form feed, carriage return.
is_ascii_whitespace(c) ==
    c \in {Code[" "], Code["TAB"], Code["LF"], Code["FF"], Code["CR"]}

is_letter(c) ==
    \/ (c >= Code["A"] /\ c <= Code["Z"])
    \/ (c >= Code["a"] /\ c <= Code["z"])
    \/ c = Code["_"]

is_digit(c) == c >= Code["0"] /\ c <= Code["9"]

(***************************************************************************)
(* The token model (crate::token, whose file is not part of the sources):  *)
(* a token is its kind, the payload of the data-carrying kinds (the text   *)
(* of IDENT and STRING, the decimal text of the value of INT) and its      *)
(* span [start, end).                                                      *)
(***************************************************************************)
Token(kind, text, start, end) ==
    [kind |-> kind, text |-> text, start |-> start, end |-> end]

\* token::lookup_identifier: a reserved word is its keyword kind, any other
\* text is IDENT(text).
Keywords ==
    (Str(<<"f", "n">>) :> "FUNCTION")
    @@ (Str(<<"l", "e", "t">>) :> "LET")
    @@ (Str(<<"t", "r", "u", "e">>) :> "TRUE")
    @@ (Str(<<"f", "a", "l", "s", "e">>) :> "FALSE")
    @@ (Str(<<"i", "f">>) :> "IF")
    @@ (Str(<<"e", "l", "s", "e">>) :> "ELSE")
    @@ (Str(<<"r", "e", "t", "u", "r", "n">>) :> "RETURN")

lookup_identifier(text) ==
    IF text \in DOMAIN Keywords
    THEN [kind |-> Keywords[text], text |-> <<>>]
    ELSE [kind |-> "IDENT", text |-> text]

(***************************************************************************)
(* str::parse::<i64>: an optional sign and at least one ASCII digit; an    *)
(* Err when the text is anything else or the value does not fit in 64      *)
(* bits.  The value is kept as its canonical decimal text, so that no      *)
(* arithmetic on 64-bit values is needed.                                  *)
(***************************************************************************)
I64MaxText == Str(<<"9", "2", "2", "3", "3", "7", "2", "0", "3", "6",
                    "8", "5", "4", "7", "7", "5", "8", "0", "7">>)
I64MinMagnitudeText == Str(<<"9", "2", "2", "3", "3", "7", "2", "0", "3", "6",
                             "8", "5", "4", "7", "7", "5", "8", "0", "8">>)

RECURSIVE StripZeros(_)
StripZeros(d) ==
    IF Len(d) > 1 /\ d[1] = Code["0"] THEN StripZeros(Tail(d)) ELSE d

\* a > b for two decimal texts without leading zeros.
DecGreater(a, b) ==
    \/ Len(a) > Len(b)
    \/ /\ Len(a) = Len(b)
       /\ \E i \in 1..Len(a) :
            /\ a[i] > b[i]
            /\ \A j \in 1..(i - 1) : a[j] = b[j]

parse_i64(t) ==
    LET signed == Len(t) > 0 /\ t[1] \in {Code["+"], Code["-"]}
        neg == Len(t) > 0 /\ t[1] = Code["-"]
        digits == IF signed THEN Tail(t) ELSE t
        mag == StripZeros(digits)
        limit == IF neg THEN I64MinMagnitudeText ELSE I64MaxText
    IN  IF \/ Len(digits) = 0
           \/ \E i \in 1..Len(digits) : ~is_digit(digits[i])
           \/ DecGreater(mag, limit)
        THEN [err |-> TRUE, value |-> <<>>]
        ELSE [err |-> FALSE,
              value |-> IF neg /\ mag # <<Code["0"]>>
                        THEN <<Code["-"]>> \o mag ELSE mag]

(***************************************************************************)
(* The Lexer.  A lexer value l is the struct's four fields and whether     *)
(* the running call has panicked; a panicked call changes nothing more.    *)
(***************************************************************************)
Lexer(inp, pos, rpos, c) ==
    [input |-> inp, position |-> pos, read_position |-> rpos, ch |-> c,
     panicked |-> FALSE]

Panic(l) == [l EXCEPT !.panicked = TRUE]

\* read_char with the end test written == instead of >=: the sentinel is set
\* only when read_position is exactly input.len().
read_char_at_len_only(l) ==
    IF l.panicked THEN l
    ELSE IF l.read_position = StrLen(l.input)
    THEN [l EXCEPT !.ch = Code["NUL"],
                   !.position = l.read_position,
                   !.read_position = l.read_position + 1]
    ELSE IF chars_nth(l.input, l.read_position) # NoChar
    THEN [l EXCEPT !.ch = chars_nth(l.input, l.read_position),
                   !.position = l.read_position,
                   !.read_position = l.read_position + 1]
    ELSE Panic(l)

read_char(l) ==
    IF l.panicked THEN l
    ELSE IF l.read_position >= StrLen(l.input)
    THEN [l EXCEPT !.ch = Code["NUL"],
                   !.position = l.read_position,
                   !.read_position = l.read_position + 1]
    ELSE IF chars_nth(l.input, l.read_position) # NoChar
    THEN [l EXCEPT !.ch = chars_nth(l.input, l.read_position),
                   !.position = l.read_position,
                   !.read_position = l.read_position + 1]
    ELSE Panic(l)

\* Lexer::new without its call of read_char.
new_without_read_char(inp) == Lexer(inp, 0, 0, Code["NUL"])

\* Lexer::new: the cursor on the first character.
new(inp) == read_char(Lexer(inp, 0, 0, Code["NUL"]))

\* The character after the current one, or NoChar when peek_char panics.
peek_char(l) ==
    IF l.read_position >= StrLen(l.input)
    THEN Code["NUL"]
    ELSE chars_nth(l.input, l.read_position)

\* skip_whitespace with an if in place of the while: one character skipped.
skip_whitespace_once(l) ==
    IF ~l.panicked /\ is_ascii_whitespace(l.ch) THEN read_char(l) ELSE l

RECURSIVE skip_whitespace(_)
skip_whitespace(l) ==
    IF ~l.panicked /\ is_ascii_whitespace(l.ch)
    THEN skip_whitespace(read_char(l))
    ELSE l

\* The while loops of read_identifier and read_number.
RECURSIVE WhileLetter(_)
WhileLetter(l) ==
    IF ~l.panicked /\ is_letter(l.ch) THEN WhileLetter(read_char(l)) ELSE l

RECURSIVE WhileDigit(_)
WhileDigit(l) ==
    IF ~l.panicked /\ is_digit(l.ch) THEN WhileDigit(read_char(l)) ELSE l

\* The loop of read_string: advance, then stop on a quote or the sentinel.
RECURSIVE UntilQuote(_)
UntilQuote(l) ==
    LET r == read_char(l)
    IN  IF r.panicked \/ r.ch = Code["\""] \/ r.ch = Code["NUL"]
        THEN r ELSE UntilQuote(r)

\* What a scanning helper returns: the lexer after it and (start, end, payload).
Scanned(l, start, end, text) ==
    [l |-> l, start |-> start, end |-> end, text |-> text]

\* read_identifier with the start taken from read_position.
read_identifier_late_start(l) ==
    LET pos == l.read_position
        r == WhileLetter(l)
        x == Slice(l.input, pos, r.position)
    IN  IF r.panicked \/ x.panicked
        THEN Scanned(Panic(r), pos, r.position, <<>>)
        ELSE Scanned(r, pos, r.position, x.text)

read_identifier(l) ==
    LET pos == l.position
        r == WhileLetter(l)
        x == Slice(l.input, pos, r.position)
    IN  IF r.panicked \/ x.panicked
        THEN Scanned(Panic(r), pos, r.position, <<>>)
        ELSE Scanned(r, pos, r.position, x.text)

read_number(l) ==
    LET pos == l.position
        r == WhileDigit(l)
        x == Slice(l.input, pos, r.position)
        n == parse_i64(x.text)
    IN  IF r.panicked \/ x.panicked \/ n.err
        THEN Scanned(Panic(r), pos, r.position, <<>>)
        ELSE Scanned(r, pos, r.position, n.value)

read_string(l) ==
    LET pos == l.position + 1
        r == UntilQuote(l)
        x == Slice(l.input, pos, r.position)
        e == IF r.ch = Code["\""] THEN read_char(r) ELSE r
    IN  IF r.panicked \/ x.panicked \/ e.panicked
        THEN Scanned(Panic(r), pos - 1, r.position, <<>>)
        ELSE Scanned(e, pos - 1, e.position, x.text)

\* The one-character arms with the braces given the kinds of the parentheses.
SingleKindAliased ==
    (Code[";"] :> "SEMICOLON") @@ (Code["("] :> "LPAREN")
    @@ (Code[")"] :> "RPAREN") @@ (Code[","] :> "COMMA")
    @@ (Code["+"] :> "PLUS") @@ (Code["-"] :> "MINUS")
    @@ (Code["*"] :> "ASTERISK") @@ (Code["/"] :> "SLASH")
    @@ (Code["<"] :> "LT") @@ (Code[">"] :> "GT")
    @@ (Code["{"] :> "LPAREN") @@ (Code["}"] :> "RPAREN")
    @@ (Code["["] :> "LBRACKET") @@ (Code[":"] :> "COLON")
    @@ (Code["]"] :> "RBRACKET") @@ (Code["NUL"] :> "EOF")

\* The kinds of the one-character arms of next_token's match.
SingleKind ==
    (Code[";"] :> "SEMICOLON") @@ (Code["("] :> "LPAREN")
    @@ (Code[")"] :> "RPAREN") @@ (Code[","] :> "COMMA")
    @@ (Code["+"] :> "PLUS") @@ (Code["-"] :> "MINUS")
    @@ (Code["*"] :> "ASTERISK") @@ (Code["/"] :> "SLASH")
    @@ (Code["<"] :> "LT") @@ (Code[">"] :> "GT")
    @@ (Code["{"] :> "LBRACE") @@ (Code["}"] :> "RBRACE")
    @@ (Code["["] :> "LBRACKET") @@ (Code[":"] :> "COLON")
    @@ (Code["]"] :> "RBRACKET") @@ (Code["NUL"] :> "EOF")

\* What next_token returns: the lexer after the call and the token; no token
\* when the call panicked.
NoToken == Token("NONE", <<>>, 0, 0)
Returned(l, tok) == [l |-> l, tok |-> IF l.panicked THEN NoToken ELSE tok]

\* The end of next_token for the arms that yield a kind: one more read_char,
\* and the span computed from the cursor after it.
\* The span started one character earlier, as if every token had two characters.
SpanAfter_two_back(l) == [start |-> l.position - 2, end |-> l.read_position - 1]

\* The span with start and end exchanged.
SpanAfter_swapped(l) == [start |-> l.read_position - 1, end |-> l.position - 1]

SpanAfter(l) == [start |-> l.position - 1, end |-> l.read_position - 1]

\* The end of next_token without the final read_char.
Finish_no_advance(l, kind) ==
    Returned(l, Token(kind, <<>>, SpanAfter(l).start, SpanAfter(l).end))

Finish(l, kind) ==
    LET r == read_char(l)
    IN  Returned(r, Token(kind, <<>>, SpanAfter(r).start, SpanAfter(r).end))

\* The arms '=' and '!': one character of lookahead.
TwoCharArm(l, double, single) ==
    IF peek_char(l) = NoChar THEN Returned(Panic(l), NoToken)
    ELSE IF peek_char(l) = Code["="] THEN Finish(read_char(l), double)
    ELSE Finish(l, single)

next_token(l0) ==
    LET l == skip_whitespace(l0)
    IN  IF l.panicked THEN Returned(l, NoToken)
        ELSE IF l.ch = Code["="] THEN TwoCharArm(l, "EQ", "ASSIGN")
        ELSE IF l.ch = Code["!"] THEN TwoCharArm(l, "NotEq", "BANG")
        ELSE IF l.ch \in DOMAIN SingleKind THEN Finish(l, SingleKind[l.ch])
        ELSE IF l.ch = Code["\""]
        THEN LET s == read_string(l)
             IN  Returned(s.l, Token("STRING", s.text, s.start, s.end))
        ELSE IF is_letter(l.ch)
        THEN LET s == read_identifier(l)
                 k == lookup_identifier(s.text)
             IN  Returned(s.l, Token(k.kind, k.text, s.start, s.end))
        ELSE IF is_digit(l.ch)
        THEN LET s == read_number(l)
             IN  Returned(s.l, Token("INT", s.text, s.start, s.end))
        ELSE Finish(l, "ILLEGAL")

(***************************************************************************)
(* tests::test_token_set: the tokens of repeated next_token calls, up to   *)
(* and with the first EOF; panicked when a call panics.                    *)
(***************************************************************************)
RECURSIVE TokenSetFrom(_, _)
TokenSetFrom(l, token_vs) ==
    LET r == next_token(l)
    IN  IF r.l.panicked THEN [panicked |-> TRUE, tokens |-> token_vs]
        ELSE IF r.tok.kind = "EOF"
        THEN [panicked |-> FALSE, tokens |-> Append(token_vs, r.tok)]
        ELSE TokenSetFrom(r.l, Append(token_vs, r.tok))

test_token_set(inp) == TokenSetFrom(new(inp), <<>>)

(***************************************************************************)
(* The inputs: every text of at most MaxLen characters over Alphabet, and  *)
(* the texts of Samples.                                                   *)
(***************************************************************************)
Alphabet ==
    {Code["="], Code["!"], Code["+"], Code["\""], Code["a"], Code["1"],
     Code[" "], Code["FF"], Code["NUL"], Code["@"], Code["e'"]}

Samples ==
    { \* the tests of the source
      Str(<<"=", "+", "(", ")", "{", "}", ",", ":", ";">>),
      Str(<<"l", "e", "t", " ", "x", "=", "5">>),
      Str(<<"l", "e", "t", " ", "x", " ", "=", " ", "5">>),
      Str(<<"\"", "a", "\"">>),
      Str(<<"[", "3", "]">>),
      Str(<<"l", "e", "t", " ", "y", "=", "t", "r", "u", "e">>),
      Str(<<"{", "\"", "o", "n", "e", "\"", ":", " ", "1", ",", " ",
            "\"", "t", "w", "o", "\"", ":", " ", "2", "}">>),
      Str(<<"!", "-", "/", "*", "5", ";", "5", " ", "<", " ", "1", "0",
            " ", ">", " ", "5", ";">>),
      Str(<<"i", "f", " ", "(", "5", " ", "<", " ", "1", "0", ")", " ", "{",
            "LF", "TAB", "r", "e", "t", "u", "r", "n", " ", "t", "r", "u",
            "e", ";", "LF", "}">>),
      Str(<<"}", " ", "e", "l", "s", "e", " ", "{", " ", "f", "a", "l", "s",
            "e", " ", "}">>),
      Str(<<"1", "0", " ", "=", "=", " ", "1", "0", ";", "CR", "LF",
            "1", "0", " ", "!", "=", " ", "9", ";">>),
      Str(<<"f", "n", "(", "x", ",", " ", "y", ")">>),
      \* the remaining operator characters
      Str(<<"[", "]", "<", ">", "*", "/", "-", "!", "=", "=", "!", "=">>),
      \* identifiers and keywords
      Str(<<"l", "e", "t", "x">>),
      Str(<<"l", "e", "t", "5">>),
      Str(<<"f", "n", "_", "A", "Z", "1", "2", "a", "b">>),
      Str(<<"r", "e", "t", "u", "r", "n">>),
      \* integers at and over the 64-bit limit, and with leading zeros
      I64MaxText,
      I64MinMagnitudeText,
      Str(<<"0", "0", "7", "+", "0">>),
      \* strings
      Str(<<"\"", "a", "b", " ", "1", "\"", "x", "\"", "y">>),
      Str(<<"x", " ", "\"", "a", "b", "c">>),
      Str(<<"\"", "a", "NUL", "b">>),
      \* characters of two bytes
      Str(<<"\"", "e'", "a", "\"", "+">>),
      Str(<<"e'", " ", "a", "b", " ", "c">>),
      Str(<<"e'", "+", "1", "2", " ", "x">>),
      Str(<<"e'", "e'", "=", "=", "+">>),
      Str(<<"e'", "+">>) \o I64MinMagnitudeText \o Str(<<" ", "x">>),
      \* integers next to other tokens
      Str(<<"1", "2", "a", "b">>),
      Str(<<"x", " ">>) \o I64MinMagnitudeText \o Str(<<";">>),
      \* whitespace around tokens
      Str(<<" ", "TAB", "LF", "CR">>),
      Str(<<"a", " ", " ", "b", "LF", "1", "TAB", "=", " ", "=", "CR",
            "\"", " ", "\"", " ">>) }

Inputs ==
    UNION {[1..n -> Alphabet] : n \in 0..MaxLen} \cup Samples

(***************************************************************************)
(* The state machine: a caller holding one Lexer and calling next_token.   *)
(***************************************************************************)
\* The Lexer of the current state.
Self == Lexer(input, position, read_position, ch)

Init ==
    /\ input \in Inputs
    /\ position = new(input).position
    /\ read_position = new(input).read_position
    /\ ch = new(input).ch
    /\ status = "ok"
    /\ tokens = <<>>

\* One call of next_token; the caller keeps the token it returns.
NextToken ==
    /\ status = "ok"
    /\ Len(tokens) < MaxCalls
    /\ LET r == next_token(Self)
       IN  /\ position' = r.l.position
           /\ read_position' = r.l.read_position
           /\ ch' = r.l.ch
           /\ status' = IF r.l.panicked THEN "panicked" ELSE "ok"
           /\ tokens' = IF r.l.panicked THEN tokens ELSE Append(tokens, r.tok)
           /\ UNCHANGED input

Next == NextToken

Spec == Init /\ [][Next]_vars

(***************************************************************************)
(* Vocabulary of the properties.  Offsets are character indices from 0.    *)
(***************************************************************************)
\* The character at offset i of the input, or NoChar at and past its end.
At(i) == IF i >= 0 /\ i < Len(input) THEN input[i + 1] ELSE NoChar

\* The first offset at or after p whose character is not in W (the end of
\* the input if there is none).
SkipOver(p, W) ==
    IF p >= Len(input) THEN p
    ELSE CHOOSE i \in p..Len(input) :
            /\ i = Len(input) \/ input[i + 1] \notin W
            /\ \A j \in p..(i - 1) : input[j + 1] \in W

\* The whitespace of char::is_ascii_whitespace, and the four characters the
\* specification lists as whitespace.
AsciiWhitespace == {Code[" "], Code["TAB"], Code["LF"], Code["FF"], Code["CR"]}
ListedWhitespace == {Code[" "], Code["TAB"], Code["LF"], Code["CR"]}

\* The step is a call of next_token, and the call returned a token.
Called == vars' # vars
ReturnedToken == status' = "ok" /\ Len(tokens') = Len(tokens) + 1
LastToken == tokens[Len(tokens)]
Returns(kind) == ReturnedToken /\ LastToken'.kind = kind

\* The operator and punctuation characters and the kind of each.
OpKindOf ==
    (Code["+"] :> "PLUS") @@ (Code["-"] :> "MINUS") @@ (Code["*"] :> "ASTERISK")
    @@ (Code["/"] :> "SLASH") @@ (Code["<"] :> "LT") @@ (Code[">"] :> "GT")
    @@ (Code["("] :> "LPAREN") @@ (Code[")"] :> "RPAREN")
    @@ (Code["{"] :> "LBRACE") @@ (Code["}"] :> "RBRACE")
    @@ (Code["["] :> "LBRACKET") @@ (Code["]"] :> "RBRACKET")
    @@ (Code[","] :> "COMMA") @@ (Code[";"] :> "SEMICOLON")
    @@ (Code[":"] :> "COLON") @@ (Code["="] :> "ASSIGN") @@ (Code["!"] :> "BANG")
OpChars == DOMAIN OpKindOf
OpCharOf(kind) == CHOOSE c \in OpChars : OpKindOf[c] = kind
SingleOpKinds == {OpKindOf[c] : c \in OpChars}

IsAscii == \A i \in 1..Len(input) : input[i] < 128

(***************************************************************************)
(* C1.  Once a call has returned a token of kind Eof, every later call on  *)
(* the same Lexer also returns kind Eof: no token that is not Eof follows  *)
(* an Eof in the sequence of returned tokens.  The inputs include the NUL  *)
(* character.                                                              *)
(***************************************************************************)
C1_EofIsFinal ==
    \A i, j \in 1..Len(tokens) :
        (i < j /\ tokens[i].kind = "EOF") => tokens[j].kind = "EOF"

\* What C2 requires of one step of the lexer.
C2_Call ==
    (status = "ok" /\ position >= StrLen(input)) =>
          /\ ch = Code["NUL"]
          /\ ~read_char(Self).panicked
          /\ read_char(Self).ch = Code["NUL"]
          /\ read_char(Self).position >= StrLen(input)
          /\ Returns("EOF")
          /\ ch' = Code["NUL"]
          /\ position' >= StrLen(input)

(***************************************************************************)
(* C2.  Once position >= input.len(), the current character is the zero    *)
(* sentinel, it stays the sentinel (and the cursor stays at or past the    *)
(* end) under a further read_char and under a further next_token, and the  *)
(* call of next_token returns Eof.                                         *)
(***************************************************************************)
C2_SentinelPersists == [][C2_Call]_vars

\* A non-empty input has been scanned to its end and Eof returned twice.
C2_Witness ==
    /\ status = "ok"
    /\ Len(input) > 0
    /\ position > StrLen(input)
    /\ Len(tokens) >= 3
    /\ tokens[Len(tokens)].kind = "EOF"
    /\ tokens[Len(tokens) - 1].kind = "EOF"
    /\ tokens[Len(tokens) - 2].kind # "EOF"

(***************************************************************************)
(* C3.  The span of every operator or punctuation token is [offset of the  *)
(* first consumed character, offset past the last consumed character): a   *)
(* one-character token has a span of length 1 on its character, and Eq     *)
(* and NotEq have a span of length 2 that starts on the first of their     *)
(* two characters.                                                         *)
(***************************************************************************)
C3_OperatorSpans ==
    \A i \in 1..Len(tokens) :
        LET t == tokens[i]
        IN  /\ t.kind \in SingleOpKinds =>
                 /\ t.end = t.start + 1
                 /\ At(t.start) = OpCharOf(t.kind)
            /\ t.kind = "EQ" =>
                 /\ t.end = t.start + 2
                 /\ At(t.start) = Code["="] /\ At(t.start + 1) = Code["="]
            /\ t.kind = "NotEq" =>
                 /\ t.end = t.start + 2
                 /\ At(t.start) = Code["!"] /\ At(t.start + 1) = Code["="]

\* What C4 requires of one step of the lexer.
C4_Call ==
    Called =>
        LET p == SkipOver(position, AsciiWhitespace)
            double == At(p + 1) = Code["="]
        IN  /\ (At(p) = Code["="] /\ double) =>
                 Returns("EQ") /\ position' = p + 2
            /\ (At(p) = Code["="] /\ ~double) =>
                 Returns("ASSIGN") /\ position' = p + 1
            /\ (At(p) = Code["!"] /\ double) =>
                 Returns("NotEq") /\ position' = p + 2
            /\ (At(p) = Code["!"] /\ ~double) =>
                 Returns("BANG") /\ position' = p + 1

(***************************************************************************)
(* C4.  One character of lookahead: a call whose current character (after  *)
(* the whitespace) is '=' followed by '=' returns one Eq and consumes both *)
(* characters, '!' followed by '=' returns one NotEq and consumes both;    *)
(* otherwise '=' returns Assign and '!' returns Bang and exactly one       *)
(* character is consumed.                                                  *)
(***************************************************************************)
C4_TwoCharLookahead == [][C4_Call]_vars

(***************************************************************************)
(* C5.  For an input made only of operator and punctuation characters,    *)
(* the kinds of the tokens returned up to the first Eof are the left to    *)
(* right mapping of the characters to their kinds, "==" and "!=" each      *)
(* mapped to one Eq or NotEq, followed by Eof; '{' and '}' are LBrace and  *)
(* RBrace, and no token is Illegal.  Every later token is Eof too.         *)
(***************************************************************************)
RECURSIVE MapOps(_)
MapOps(s) ==
    IF s = <<>> THEN <<>>
    ELSE IF Len(s) >= 2 /\ s[1] = Code["="] /\ s[2] = Code["="]
    THEN <<"EQ">> \o MapOps(SubSeq(s, 3, Len(s)))
    ELSE IF Len(s) >= 2 /\ s[1] = Code["!"] /\ s[2] = Code["="]
    THEN <<"NotEq">> \o MapOps(SubSeq(s, 3, Len(s)))
    ELSE <<OpKindOf[s[1]]>> \o MapOps(Tail(s))

OnlyOps == \A i \in 1..Len(input) : input[i] \in OpChars

C5_OperatorMapping ==
    OnlyOps =>
        /\ status = "ok"
        /\ \A i \in 1..Len(tokens) :
              tokens[i].kind = IF i <= Len(MapOps(input))
                               THEN MapOps(input)[i] ELSE "EOF"

\* The input of test_lexer_simple has been scanned up to its Eof.
C5_Witness ==
    /\ input = Str(<<"=", "+", "(", ")", "{", "}", ",", ":", ";">>)
    /\ Len(tokens) = 10
    /\ tokens[5].kind = "LBRACE"
    /\ tokens[10].kind = "EOF"

LetterChars ==
    (Code["A"]..Code["Z"]) \cup (Code["a"]..Code["z"]) \cup {Code["_"]}
DigitChars == Code["0"]..Code["9"]
KeywordKinds == {Keywords[w] : w \in DOMAIN Keywords}

\* What C6 requires of one step of the lexer.
C6_Call ==
    Called =>
        LET p == SkipOver(position, AsciiWhitespace)
            q == SkipOver(p, LetterChars)
            run == SubSeq(input, p + 1, q)
        IN  At(p) \in LetterChars =>
              /\ ReturnedToken
              /\ LastToken'.start = p
              /\ LastToken'.end = q
              /\ position' = q
              /\ IF run \in DOMAIN Keywords
                 THEN LastToken'.kind = Keywords[run]
                 ELSE LastToken'.kind = "IDENT" /\ LastToken'.text = run

(***************************************************************************)
(* C6.  Maximal munch of identifiers: a call whose current character       *)
(* (after the whitespace) is a letter or '_' consumes the longest run of   *)
(* ASCII letters and underscores, returns exactly one token for the run    *)
(* (the keyword kind if the run is a reserved word, Ident(run) otherwise)  *)
(* and leaves the cursor on the first character after the run.             *)
(***************************************************************************)
C6_IdentifierMaximalMunch == [][C6_Call]_vars

(***************************************************************************)
(* C7.  For an ASCII input, the span [start, end) of every identifier,     *)
(* keyword and integer token, sliced out of the input, is exactly the run  *)
(* consumed for the token: start is the offset of the first character      *)
(* that is not whitespace after the previous token, the slice is not       *)
(* empty, holds only letters and underscores (only digits for an integer), *)
(* so no whitespace, is the token's text, and the character at end, if     *)
(* any, is the first one that does not continue the run.                   *)
(***************************************************************************)
C7_SpanIsTheRun ==
    IsAscii =>
        \A i \in 1..Len(tokens) :
            LET t == tokens[i]
                before == IF i = 1 THEN 0 ELSE tokens[i - 1].end
                run == SubSeq(input, t.start + 1, t.end)
                class == IF t.kind = "INT" THEN DigitChars ELSE LetterChars
            IN  t.kind \in {"IDENT", "INT"} \cup KeywordKinds =>
                  /\ 0 <= t.start /\ t.start < t.end /\ t.end <= Len(input)
                  /\ t.start = SkipOver(before, AsciiWhitespace)
                  /\ \A k \in 1..Len(run) :
                        run[k] \in class /\ run[k] \notin AsciiWhitespace
                  /\ At(t.end) \notin class
                  /\ t.kind = "INT" => t.text = StripZeros(run)
                  /\ t.kind = "IDENT" =>
                        t.text = run /\ run \notin DOMAIN Keywords
                  /\ t.kind \in KeywordKinds =>
                        run \in DOMAIN Keywords /\ Keywords[run] = t.kind

\* "let x = 5" has been scanned: the spans slice out "let", "x", "=", "5".
C7_Witness ==
    /\ input = Str(<<"l", "e", "t", " ", "x", " ", "=", " ", "5">>)
    /\ Len(tokens) >= 4
    /\ tokens[1].kind = "LET" /\ tokens[1].start = 0 /\ tokens[1].end = 3
    /\ tokens[2].kind = "IDENT" /\ tokens[2].start = 4 /\ tokens[2].end = 5
    /\ tokens[4].kind = "INT" /\ tokens[4].start = 8 /\ tokens[4].end = 9

QuoteAfter(p) == \E q \in (p + 1)..(Len(input) - 1) : At(q) = Code["\""]
FirstQuoteAfter(p) ==
    CHOOSE q \in (p + 1)..(Len(input) - 1) :
        /\ At(q) = Code["\""]
        /\ \A j \in (p + 1)..(q - 1) : At(j) # Code["\""]

\* What C8 requires of one step of the lexer.
C8_Call ==
    Called =>
        LET p == SkipOver(position, AsciiWhitespace)
        IN  (At(p) = Code["\""] /\ QuoteAfter(p)) =>
              LET q == FirstQuoteAfter(p)
              IN  /\ Returns("STRING")
                  /\ LastToken'.text = SubSeq(input, p + 2, q)
                  /\ LastToken'.start = p
                  /\ LastToken'.end = q + 1
                  /\ position' = q + 1

(***************************************************************************)
(* C8.  A terminated string literal: a call whose current character        *)
(* (after the whitespace) is '"', with a later '"' in the input, returns   *)
(* one String token whose text is the characters strictly between the      *)
(* opening quote and the first following quote, whose span starts at the   *)
(* opening quote and ends one past the closing quote, and leaves the       *)
(* cursor on the character after the closing quote.                        *)
(***************************************************************************)
C8_TerminatedString == [][C8_Call]_vars

\* What C9 requires of one step of the lexer.
C9_Call ==
    Called =>
        LET p == SkipOver(position, AsciiWhitespace)
        IN  /\ (At(p) = Code["\""] /\ ~QuoteAfter(p)) =>
                 /\ Returns("STRING")
                 /\ LastToken'.text = SubSeq(input, p + 2, Len(input))
                 /\ LastToken'.start = p
                 /\ LastToken'.end = Len(input)
            /\ ( /\ Len(tokens) > 0
                 /\ LastToken.kind = "STRING"
                 /\ ~QuoteAfter(LastToken.start) ) =>
                 Returns("EOF")

(***************************************************************************)
(* C9.  An unterminated string literal: a call whose current character     *)
(* (after the whitespace) is '"', with no later '"' in the input, raises   *)
(* no error and returns one String token whose text is every character     *)
(* after the opening quote up to the end of the input and whose span is    *)
(* [offset of the opening quote, length of the input); the call after it   *)
(* returns Eof.                                                            *)
(***************************************************************************)
C9_UnterminatedString == [][C9_Call]_vars

\* What C10 requires of one step of the lexer.
C10_Call ==
    Called =>
        LET p == SkipOver(position, ListedWhitespace)
            c == At(p)
        IN  ( /\ c # NoChar /\ c # Code["NUL"]
              /\ c \notin OpChars \cup LetterChars \cup DigitChars
              /\ c # Code["\""] ) =>
              /\ Returns("ILLEGAL")
              /\ LastToken'.start = p
              /\ LastToken'.end = p + 1
              /\ position' = p + 1

(***************************************************************************)
(* C10.  A call whose current character, after the spaces, tabs, newlines  *)
(* and carriage returns, is not an operator or punctuation character, not  *)
(* '"', not a letter or underscore, not a digit and not the end of the     *)
(* input returns exactly one Illegal token with the span of length 1 at    *)
(* that character, and leaves the cursor on the following character.  The  *)
(* form feed and the characters that are not ASCII are such characters.    *)
(***************************************************************************)
C10_IllegalCharacter == [][C10_Call]_vars

(***************************************************************************)
(* C11.  The only abort is a digit run that does not fit in 64 bits: for   *)
(* every input of printable characters without such a run, characters of   *)
(* several bytes included, new and every call of next_token return.        *)
(***************************************************************************)
Printable == \A i \in 1..Len(input) : input[i] >= 32 /\ input[i] # 127

\* The digits input[a..b] (from 1) are a run whose value exceeds 2^63 - 1.
Overflows(run) == DecGreater(StripZeros(run), I64MaxText)
HasOverflowingRun ==
    \E a \in 1..Len(input) : \E b \in a..Len(input) :
        /\ \A k \in a..b : input[k] \in Code["0"]..Code["9"]
        /\ Overflows(SubSeq(input, a, b))

C11_OnlyOverflowAborts ==
    (Printable /\ ~HasOverflowingRun) => status # "panicked"

\* What C12 requires of one step of the lexer.
C12_Call ==
    Called =>
        LET p == SkipOver(position, AsciiWhitespace)
            q == SkipOver(p, Code["0"]..Code["9"])
            run == SubSeq(input, p + 1, q)
        IN  (At(p) \in Code["0"]..Code["9"] /\ ~Overflows(run)) =>
              /\ Returns("INT")
              /\ LastToken'.text = StripZeros(run)
              /\ LastToken'.start = p
              /\ LastToken'.end = q
              /\ position' = q

(***************************************************************************)
(* C12.  Maximal munch of integers: a call whose current character (after  *)
(* the whitespace) is a digit consumes the longest run of digits and, when *)
(* the value of the run is at most 2^63 - 1, returns exactly one Int token *)
(* carrying that value (leading zeros allowed) and leaves the cursor on    *)
(* the first character after the run.                                      *)
(***************************************************************************)
C12_IntegerMaximalMunch == [][C12_Call]_vars

\* What C13 requires of one step of the lexer.
C13_Call ==
    /\ Called =>
        LET p == SkipOver(position, AsciiWhitespace)
            q == SkipOver(p, Code["0"]..Code["9"])
            run == SubSeq(input, p + 1, q)
        IN  (At(p) \in Code["0"]..Code["9"] /\ Overflows(run)) =>
              status' = "panicked" /\ tokens' = tokens
    /\ status = "panicked" => tokens' = tokens

(***************************************************************************)
(* C13.  A digit run whose value exceeds 2^63 - 1 is fatal: the call       *)
(* aborts the scan and returns no token for the run, neither Illegal nor   *)
(* an Int of another value, and the Lexer produces no later token.         *)
(***************************************************************************)
C13_OverflowIsFatal == [][C13_Call]_vars

\* What C14 requires of one step of the lexer.  Every read_char that returns
\* adds one to read_position, which starts at 0, so read_position is the
\* number of read_char steps made so far.
C14_Call ==
    (IsAscii /\ ~HasOverflowingRun /\ Called) =>
        /\ ReturnedToken
        /\ LastToken'.kind # "EOF" => position' > position
        /\ Len(tokens') = Len(input) + 1 =>
              \E i \in 1..Len(tokens') : tokens'[i].kind = "EOF"
        /\ ( /\ LastToken'.kind = "EOF"
             /\ \A i \in 1..Len(tokens) : tokens[i].kind # "EOF" ) =>
              read_position' <= Len(input) + 2

(***************************************************************************)
(* C14.  Scanning terminates: for an ASCII input without an overflowing    *)
(* digit run every call returns, Eof is returned after at most             *)
(* length(input) + 1 calls, every call that returns a token other than Eof *)
(* consumes at least one character, and the number of read_char steps up   *)
(* to the first Eof is at most length(input) + 2.                          *)
(***************************************************************************)
C14_ScanningTerminates == [][C14_Call]_vars

\* An input of three one-character tokens needed all of its four calls.
C14_Witness ==
    /\ IsAscii /\ Len(input) = 3
    /\ Len(tokens) = 4
    /\ tokens[3].kind # "EOF"
    /\ tokens[4].kind = "EOF"

(***************************************************************************)
(* C15.  Every token returned by next_token, of every kind and on every    *)
(* call, has a span with start <= end.                                     *)
(***************************************************************************)
C15_SpanStartBeforeEnd ==
    \A i \in 1..Len(tokens) : tokens[i].start <= tokens[i].end

\* Tokens whose span next_token computes itself have been returned: an
\* operator, an Illegal, and Eof on two calls.
C15_Witness ==
    /\ \E i \in 1..Len(tokens) : tokens[i].kind = "BANG"
    /\ \E i \in 1..Len(tokens) : tokens[i].kind = "ILLEGAL"
    /\ Len(tokens) >= 2
    /\ tokens[Len(tokens)].kind = "EOF"
    /\ tokens[Len(tokens) - 1].kind = "EOF"

(***************************************************************************)
(* C16.  For an ASCII input, after new and after every call of next_token  *)
(* that returned, ch is the character of the input at index position when  *)
(* position < length(input) and the zero sentinel otherwise, and           *)
(* read_position = position + 1.                                           *)
(***************************************************************************)
C16_CursorInvariant ==
    (IsAscii /\ status = "ok") =>
        /\ ch = IF position < Len(input) THEN input[position + 1]
                ELSE Code["NUL"]
        /\ read_position = position + 1

\* A call has returned with the cursor on a character inside the input.
C16_Witness ==
    /\ IsAscii /\ status = "ok"
    /\ Len(tokens) >= 1
    /\ position < Len(input)
    /\ ch = Code["a"]

(***************************************************************************)
(* C17.  Every span returned by next_token is a range of offsets into the  *)
(* input: 0 <= start <= end <= length(input) for every token, the Eof      *)
(* token and the Eof tokens of repeated calls included.  The length is     *)
(* taken in bytes, which is at least the length in characters.             *)
(***************************************************************************)
C17_SpanInsideInput ==
    \A i \in 1..Len(tokens) :
        /\ 0 <= tokens[i].start
        /\ tokens[i].start <= tokens[i].end
        /\ tokens[i].end <= StrLen(input)

(***************************************************************************)
(* C18.  Spans are ordered and never overlap: of two consecutive tokens    *)
(* returned by the same Lexer, the end of the earlier one is at most the   *)
(* start of the later one.                                                 *)
(***************************************************************************)
C18_SpansOrdered ==
    \A i \in 2..Len(tokens) : tokens[i - 1].end <= tokens[i].start

\* Three tokens with nothing between them, then Eof, have been returned.
C18_Witness ==
    /\ Len(tokens) >= 4
    /\ tokens[1].end = tokens[2].start
    /\ tokens[2].end = tokens[3].start
    /\ tokens[3].kind # "EOF"
    /\ tokens[4].kind = "EOF"

(***************************************************************************)
(* Vocabulary of C19.                                                      *)
(***************************************************************************)
\* The kinds and payloads of a sequence of tokens, without the spans.
KindsAndPayloads(toks) ==
    [i \in 1..Len(toks) |-> [kind |-> toks[i].kind, text |-> toks[i].text]]

\* The input with character w put at offset k, and without its character at
\* offset k.
InsertAt(k, w) == SubSeq(input, 1, k) \o <<w>> \o SubSeq(input, k + 1, Len(input))
RemoveAt(k) == SubSeq(input, 1, k) \o SubSeq(input, k + 2, Len(input))

\* Offset k is outside the string literals: an even number of quotes precede it.
OutsideString(k) ==
    Cardinality({j \in 1..k : input[j] = Code["\""]}) % 2 = 0

\* The tokens up to the first Eof have just been returned.
FirstEofReturned ==
    /\ status = "ok"
    /\ Len(tokens) > 0
    /\ tokens[Len(tokens)].kind = "EOF"
    /\ \A i \in 1..(Len(tokens) - 1) : tokens[i].kind # "EOF"

\* The offsets between two tokens: from where a token's scan ended to the
\* next character that is not whitespace.
BetweenTokens ==
    {k \in 0..Len(input) :
        /\ OutsideString(k)
        /\ \E i \in 0..(Len(tokens) - 1) :
              LET e == IF i = 0 THEN 0 ELSE tokens[i].end
              IN  e <= k /\ k <= SkipOver(e, AsciiWhitespace)}

\* Two characters that would join into one token when put side by side.
Joins(a, b) ==
    \/ a \in LetterChars /\ b \in LetterChars
    \/ a \in DigitChars /\ b \in DigitChars
    \/ a \in {Code["="], Code["!"]} /\ b = Code["="]

\* The whitespace characters between two tokens whose removal joins nothing.
Removable ==
    {k \in BetweenTokens :
        /\ At(k) \in ListedWhitespace
        /\ ~Joins(At(k - 1), At(k + 1))}

(***************************************************************************)
(* C19.  Whitespace never produces or changes a token: for an ASCII input, *)
(* putting a space, tab, newline or carriage return between two tokens     *)
(* (outside the string literals), or removing one that joins no identifier *)
(* or digit run and no pair == or !=, leaves the kinds and payloads of the *)
(* tokens up to the first Eof unchanged; an empty or whitespace-only input *)
(* yields Eof on the first call.                                           *)
(***************************************************************************)
C19_WhitespaceIsTransparent ==
    (IsAscii /\ FirstEofReturned) =>
        /\ \A k \in BetweenTokens : \A w \in ListedWhitespace :
              /\ ~test_token_set(InsertAt(k, w)).panicked
              /\ KindsAndPayloads(test_token_set(InsertAt(k, w)).tokens)
                    = KindsAndPayloads(tokens)
        /\ \A k \in Removable :
              /\ ~test_token_set(RemoveAt(k)).panicked
              /\ KindsAndPayloads(test_token_set(RemoveAt(k)).tokens)
                    = KindsAndPayloads(tokens)
        /\ (\A j \in 1..Len(input) : input[j] \in ListedWhitespace) =>
              tokens[1].kind = "EOF"

\* An input with whitespace between its tokens has been scanned to its Eof:
\* there are offsets to put whitespace at and whitespace to remove.
C19_Witness ==
    /\ IsAscii /\ FirstEofReturned
    /\ Len(tokens) >= 4
    /\ Cardinality(BetweenTokens) >= 4
    /\ Removable # {}

====
